---- MODULE Spec2Model ----
(***************************************************************************)
(* yirgacheffe: lazy, row-banded evaluation of expression trees over       *)
(* raster layers (src/yirgacheffe/operators.py) and the Group compositor   *)
(* exercised by src/tests/test_group.py.                                   *)
(*                                                                         *)
(* An expression is a tree of LayerOperation nodes over leaf layers and    *)
(* LayerConstant leaves.  A terminal operation (sum, min, max, save) walks *)
(* the node's window in bands of at most YSTEP rows; one Band step of the  *)
(* model is one iteration of that loop.                                    *)
(***************************************************************************)
EXTENDS Integers, Sequences, FiniteSets, TLC

\* ------------------------------------------------------------------ bounds
MaxXSize == 2      \* widest layer window
MaxYSize == 2      \* tallest layer window ("other" is one row taller)
MaxYStep == 2      \* largest band height YSTEP is set to
MaxChildren == 2   \* most children given to a Group compositor

VARIABLES
    YSTEP,              \* operators.py:5, the band height (a module global)
    layers,             \* the leaf layers an expression may name
    expr,               \* the LayerOperation a terminal operation is called on
    pc,                 \* "idle" | "loop" | "done" | "raised"
    op,                 \* the terminal operation running or last run
    and_sum,            \* save()'s and_sum argument
    destination_layer,  \* save()'s destination argument
    computation_window, \* the local of sum/min/max/save
    yoffset,            \* the loop variable of the band loop
    total,              \* the accumulator of the band loop
    chunk,              \* what the last self._eval(yoffset, step) returned
    calls,              \* the _eval(yoffset, step) calls of this operation
    writes,             \* the band.WriteArray calls of this operation
    reads,              \* read_array calls issued by this operation
    dataset,            \* the pixels of the destination raster written so far
    dataset_before,     \* dataset when the running operation was called
    ret,                \* the operation's return value
    exc,                \* the error the operation raised
    sum_ret,            \* what sum() returned, if it was the call before this one
    group,              \* the Group compositor: children, area, window
    request,            \* the arguments of the last direct read_array call
    window_call,        \* the last windowing call made on the compositor,
                        \* and whether its window has ever been narrowed
    first               \* the compositor and its full read as constructed

vars == <<YSTEP, layers, expr, pc, op, and_sum, destination_layer,
          computation_window, yoffset, total, chunk, calls, writes, reads,
          dataset, dataset_before, ret, exc, sum_ret, group, request,
          window_call, first>>

groupvars == <<group, request, window_call, first>>

\* ------------------------------------------------------------ Python values
None == [kind |-> "None"]
NotImplemented == [kind |-> "NotImplemented"]
Scalar(x) == [kind |-> "scalar", v |-> x]
\* a numpy array of shape (Len(rows), Len(rows[1]))
Array(rows) == [kind |-> "array", a |-> rows]
Raise(e) == [kind |-> "raise", exc |-> e]

IsScalar(x) == x.kind = "scalar"
IsArray(x) == x.kind = "array"
IsRaise(x) == x.kind = "raise"

Window(xoff, yoff, xsize, ysize) ==
    [kind |-> "window", xoff |-> xoff, yoff |-> yoff, xsize |-> xsize,
     ysize |-> ysize]

\* ------------------------------------------------------------- leaf layers
Patterns == {"positive", "negative", "mixed"}

\* The pixel a layer holds at column c, row r of its window (0-based).
Pixel(l, c, r) ==
    LET k == r * l.window.xsize + c IN
    CASE l.pattern = "positive" -> k + 1
      [] l.pattern = "negative" -> 0 - (k + 1)
      [] l.pattern = "mixed"    -> IF k % 2 = 0 THEN k - 1 ELSE 2 - k
      [] l.pattern = "other"    -> 7 + c - 3 * r
      [] l.pattern = "tile"     -> 10 * l.id + k + 1

\* Layer.read_array: shape (ysize, xsize), offsets relative to the layer's
\* window origin, zero outside the data.
read_array(l, xoffset, yoff, xsize, ysize) ==
    Array([i \in 1..ysize |-> [j \in 1..xsize |->
        LET c == xoffset + j - 1
            r == yoff + i - 1
        IN IF c >= 0 /\ c < l.window.xsize /\ r >= 0 /\ r < l.window.ysize
           THEN Pixel(l, c, r) ELSE 0]])

\* ------------------------------------------------------- Group compositor
Area(left, top, right, bottom) ==
    [left |-> left, top |-> top, right |-> right, bottom |-> bottom]

\* the pixel scale shared by the children: 2 world units a pixel, north up
XStep == 2
YStep == -2

Min2(a, b) == IF a < b THEN a ELSE b
Max2(a, b) == IF a > b THEN a ELSE b

\* the window an area takes in the pixel frame whose origin is origin's
\* top-left corner
AreaWindow(a, origin) ==
    Window((a.left - origin.left) \div XStep,
           (origin.top - a.top) \div (0 - YStep),
           (a.right - a.left) \div XStep,
           (a.top - a.bottom) \div (0 - YStep))

UnionArea(a, b) ==
    Area(Min2(a.left, b.left), Max2(a.top, b.top),
         Max2(a.right, b.right), Min2(a.bottom, b.bottom))

IntersectArea(a, b) ==
    Area(Max2(a.left, b.left), Min2(a.top, b.top),
         Min2(a.right, b.right), Max2(a.bottom, b.bottom))

EmptyArea(a) == a.left >= a.right \/ a.bottom >= a.top

\* the union of the children's areas
RECURSIVE GroupArea(_)
GroupArea(cs) ==
    IF Len(cs) = 1 THEN cs[1].area
    ELSE UnionArea(cs[1].area, GroupArea(Tail(cs)))

\* the window reset_window() restores: the whole union area
FullWindow(g) == AreaWindow(g.area, g.area)

\* GroupLayer(children)
GroupLayer(cs) ==
    [kind |-> "GroupLayer", children |-> cs, area |-> GroupArea(cs),
     window |-> AreaWindow(GroupArea(cs), GroupArea(cs))]

\* reset_window() that keeps the narrowed offset and restores the size only
reset_window_size_only(g) ==
    [g EXCEPT !.window = Window(g.window.xoff, g.window.yoff,
                                FullWindow(g).xsize, FullWindow(g).ysize)]

\* reset_window()
reset_window(g) == [g EXCEPT !.window = FullWindow(g)]

\* set_window_for_intersection(area): the compositor after the call, or the
\* error raised when the areas do not overlap
set_window_for_intersection(g, a) ==
    IF EmptyArea(IntersectArea(g.area, a)) THEN Raise("ValueError")
    ELSE [g EXCEPT !.window = AreaWindow(IntersectArea(g.area, a), g.area)]

\* whether pixel (x, y) of the union frame lies in window w
InWindow(w, x, y) ==
    x >= w.xoff /\ x < w.xoff + w.xsize /\ y >= w.yoff /\ y < w.yoff + w.ysize

\* the copy that leaves alone a pixel an earlier child has filled
CopyChildFirstWins(g, k, target, result) ==
    LET cw == AreaWindow(g.children[k].area, g.area)
        data == read_array(g.children[k], 0, 0, cw.xsize, cw.ysize).a
        earlier(x, y) == \E m \in 1..(k - 1) :
                            InWindow(AreaWindow(g.children[m].area, g.area), x, y)
    IN  [i \in 1..target.ysize |-> [j \in 1..target.xsize |->
            LET x == target.xoff + j - 1
                y == target.yoff + i - 1
            IN  IF InWindow(cw, x, y) /\ ~earlier(x, y)
                THEN data[y - cw.yoff + 1][x - cw.xoff + 1]
                ELSE result[i][j]]]

\* the chunk after child k's sub-read has been copied over what it holds
CopyChild(g, k, target, result) ==
    LET cw == AreaWindow(g.children[k].area, g.area)
        data == read_array(g.children[k], 0, 0, cw.xsize, cw.ysize).a
    IN  [i \in 1..target.ysize |-> [j \in 1..target.xsize |->
            LET x == target.xoff + j - 1
                y == target.yoff + i - 1
            IN  IF InWindow(cw, x, y)
                THEN data[y - cw.yoff + 1][x - cw.xoff + 1]
                ELSE result[i][j]]]

\* the children copied in, first to last, from child k on
RECURSIVE Composite(_, _, _, _)
Composite(g, k, target, result) ==
    IF k > Len(g.children) THEN result
    ELSE Composite(g, k + 1, target, CopyChild(g, k, target, result))

\* GroupLayer.read_array: a zero chunk of the requested shape, then every
\* child's pixels over it in the order of construction
GroupLayer_read_array(g, xoffset, yoff, xsize, ysize) ==
    Array(Composite(g, 1,
                    Window(g.window.xoff + xoffset, g.window.yoff + yoff,
                           xsize, ysize),
                    [i \in 1..ysize |-> [j \in 1..xsize |-> 0]]))

\* ---------------------------------------------------------- expression tree
NoRhs == [kind |-> "none"]
Layer(name) == [kind |-> "layer", name |-> name]
Group == [kind |-> "group"]
LayerConstant(val) == [kind |-> "const", val |-> val]
LayerOperation(lhs, operator, rhs) ==
    [kind |-> "op", class |-> "LayerOperation", lhs |-> lhs,
     operator |-> operator, rhs |-> rhs]
\* class ShaderStyleOperation(LayerOperation): the same node, its _eval overridden
ShaderStyleOperation(lhs, operator, rhs) ==
    [kind |-> "op", class |-> "ShaderStyleOperation", lhs |-> lhs,
     operator |-> operator, rhs |-> rhs]

NoOperator == "None"
NamedBinary == {"__add__", "__sub__", "__mul__"}
NamedUnary == {"__neg__"}
Named == NamedBinary \cup NamedUnary
\* user functions handed to numpy_apply: lambda a: -a and lambda a, b: a - b
Callables == {"fn_neg", "fn_sub"}

\* LayerOperation.window
RECURSIVE window(_)

\* the window property asking the rhs before the lhs
window_rhs_first(e) ==
    CASE e.kind = "layer" -> layers[e.name].window
      [] e.kind = "group" -> group.window
      [] e.kind = "op" ->
            LET rw == IF e.rhs.kind = "none" THEN Raise("AttributeError")
                      ELSE window(e.rhs)
            IN  IF ~IsRaise(rw) THEN rw ELSE window(e.lhs)
      [] OTHER -> Raise("AttributeError")

window(e) ==
    CASE e.kind = "layer" -> layers[e.name].window
      [] e.kind = "group" -> group.window
      [] e.kind = "op" ->
            LET lw == window(e.lhs) IN
            IF ~IsRaise(lw) THEN lw
            ELSE IF e.rhs.kind = "none" THEN Raise("AttributeError")
            ELSE window(e.rhs)
      [] OTHER -> Raise("AttributeError")

\* ------------------------------------------------------- numpy arithmetic
Arith(name, x, y) ==
    CASE name = "__add__" -> x + y
      [] name = "__sub__" -> x - y
      [] name = "__mul__" -> x * y

\* getattr(lhs, name)(arg) for a binary method of a Python number or an ndarray
Method(lhs, name, arg) ==
    CASE IsScalar(lhs) /\ IsScalar(arg) -> Scalar(Arith(name, lhs.v, arg.v))
      [] IsScalar(lhs) /\ ~IsScalar(arg) -> NotImplemented
      [] IsArray(lhs) /\ IsScalar(arg) ->
            Array([i \in DOMAIN lhs.a |-> [j \in DOMAIN lhs.a[i] |->
                     Arith(name, lhs.a[i][j], arg.v)]])
      [] IsArray(lhs) /\ IsArray(arg) ->
            Array([i \in DOMAIN lhs.a |-> [j \in DOMAIN lhs.a[i] |->
                     Arith(name, lhs.a[i][j], arg.a[i][j])]])
      [] IsArray(lhs) /\ ~IsScalar(arg) /\ ~IsArray(arg) -> Raise("TypeError")
      [] OTHER -> Raise("AttributeError")

\* -x for a Python number or an ndarray
Negate(x) ==
    CASE IsScalar(x) -> Scalar(0 - x.v)
      [] IsArray(x) ->
            Array([i \in DOMAIN x.a |-> [j \in DOMAIN x.a[i] |-> 0 - x.a[i][j]]])
      [] OTHER -> Raise("TypeError")

\* a - b as the Python expression (reflected methods included)
Subtract(x, y) ==
    CASE IsScalar(x) /\ IsScalar(y) -> Scalar(x.v - y.v)
      [] IsScalar(x) /\ IsArray(y) ->
            Array([i \in DOMAIN y.a |-> [j \in DOMAIN y.a[i] |-> x.v - y.a[i][j]]])
      [] IsArray(x) /\ (IsScalar(y) \/ IsArray(y)) -> Method(x, "__sub__", y)
      [] OTHER -> Raise("TypeError")

\* operator(lhs) and operator(lhs, rhs) for a user function
Call1(f, x) == IF f = "fn_neg" THEN Negate(x) ELSE Raise("TypeError")
Call2(f, x, y) == IF f = "fn_sub" THEN Subtract(x, y) ELSE Raise("TypeError")

\* ------------------------------------------------------------------ _eval
\* The result of evaluating one band: the value (or the error raised) and the
\* number of read_array calls issued on the way.
Result(val, n) == [val |-> val, n |-> n]

\* lines 126-144: the named-operator branch, lhs evaluated to l.val
RECURSIVE _eval(_, _, _)
EvalNamed(e, index, step, l) ==
    IF ~(IsScalar(l.val) \/ IsArray(l.val))
    THEN Result(Raise("AttributeError"), l.n)           \* getattr(lhs, raw_operator)
    ELSE IF e.rhs.kind = "none"
    THEN Result(IF e.operator \in NamedUnary THEN Negate(l.val)
                ELSE Raise("TypeError"), l.n)           \* operator()
    ELSE
    LET rhs == _eval(e.rhs, index, step)                \* line 131
    IN  IF IsRaise(rhs.val) THEN Result(rhs.val, l.n + rhs.n)
        ELSE
        LET arg == _eval(e.rhs, index, step)            \* line 133, a second time
            n == l.n + rhs.n + arg.n
            result == IF e.operator \in NamedUnary THEN Raise("TypeError")
                      ELSE Method(l.val, e.operator, arg.val)
        IN  IF IsRaise(arg.val) THEN Result(arg.val, n)
            ELSE IF result = NotImplemented /\ e.operator \in {"__add__", "__mul__"}
            THEN Result(Method(rhs.val, e.operator, l.val), n)
            ELSE Result(result, n)

\* lines 146-153: the callable branch
EvalCallable(e, index, step, l) ==
    IF e.rhs.kind # "none"
    THEN LET rhs == _eval(e.rhs, index, step)
         IN  IF IsRaise(rhs.val) THEN Result(rhs.val, l.n + rhs.n)
             ELSE Result(Call2(e.operator, l.val, rhs.val), l.n + rhs.n)
    ELSE Result(Call1(e.operator, l.val), l.n)

\* ------------------------------------- ShaderStyleOperation._eval (230-267)
\* What np.empty_like leaves at a position until the loop assigns it: the
\* array's memory is not initialised, and this value, which no pixel and no
\* operator result takes, stands for whatever it holds.
Uninitialised == 0 - 32768

\* the column count of the loop with its last column left out
ShaderColumnsShort(e) == window(e).xsize - 1

\* line 253: for xoffset in range(window.xsize)
ShaderColumns(e) == window(e).xsize

\* lines 254-257 (260-263): v[yoffset][xoffset], or v itself where v cannot
\* be indexed (TypeError); an index outside an array raises IndexError
Index(v, y, x) ==
    IF ~IsArray(v) THEN v
    ELSE IF y < Len(v.a) /\ x < Len(v.a[1]) THEN Scalar(v.a[y + 1][x + 1])
    ELSE Raise("IndexError")

\* lines 254-266: what the loop body computes for position (y, x), rhs being
\* None where the node has none
ShaderValue(e, lhs, rhs, y, x) ==
    LET lhs_val == Index(lhs, y, x) IN
    IF IsRaise(lhs_val) THEN lhs_val
    ELSE IF rhs = None THEN Call1(e.operator, lhs_val)
    ELSE LET rhs_val == Index(rhs, y, x) IN
         IF IsRaise(rhs_val) THEN rhs_val
         ELSE Call2(e.operator, lhs_val, rhs_val)

\* lines 264 and 266: the value, then its assignment to result[y][x], result
\* having the shape of like
ShaderStore(e, lhs, rhs, like, y, x) ==
    LET v == ShaderValue(e, lhs, rhs, y, x) IN
    IF IsRaise(v) THEN v
    ELSE IF IsArray(like) /\ y < Len(like.a) /\ x < Len(like.a[1]) THEN v
    ELSE Raise("IndexError")

\* lines 247-267: result = np.empty_like(like), then the loop over
\* range(step) x range(window.xsize); the first position that raises ends it
ShaderLoop(e, lhs, rhs, like, step, n) ==
    IF IsRaise(window(e)) THEN Result(window(e), n)
    ELSE
    LET visited == {<<y, x>> : y \in 0..(step - 1), x \in 0..(ShaderColumns(e) - 1)}
        failing == {p \in visited :
                      IsRaise(ShaderStore(e, lhs, rhs, like, p[1], p[2]))}
        p0 == CHOOSE p \in failing : \A q \in failing :
                  p[1] < q[1] \/ (p[1] = q[1] /\ p[2] <= q[2])
        rows == IF IsArray(like) THEN like.a ELSE <<>>
    IN  IF failing # {}
        THEN Result(ShaderStore(e, lhs, rhs, like, p0[1], p0[2]), n)
        ELSE Result(Array([i \in DOMAIN rows |-> [j \in DOMAIN rows[i] |->
                        IF <<i - 1, j - 1>> \in visited
                        THEN ShaderValue(e, lhs, rhs, i - 1, j - 1).v
                        ELSE Uninitialised]]), n)

\* lines 232-249: both operands, an AttributeError from the rhs taken as "no
\* rhs", and the short cut for operands that are bare numbers
EvalShader(e, index, step) ==
    LET l == _eval(e.lhs, index, step) IN
    IF IsRaise(l.val) THEN l
    ELSE
    LET r == IF e.rhs.kind = "none" THEN Result(None, 0)
             ELSE _eval(e.rhs, index, step)
        rhs == IF r.val = Raise("AttributeError") THEN None ELSE r.val
        n == l.n + r.n
    IN  IF IsRaise(rhs) THEN Result(rhs, n)
        ELSE IF IsScalar(l.val) /\ rhs = None
        THEN Result(Call1(e.operator, l.val), n)
        ELSE IF IsScalar(l.val) /\ IsScalar(rhs)
        THEN Result(Call2(e.operator, l.val, rhs), n)
        ELSE ShaderLoop(e, l.val, rhs, IF IsScalar(l.val) THEN rhs ELSE l.val,
                        step, n)

_eval(e, index, step) ==
    CASE e.kind = "const" -> Result(Scalar(e.val), 0)
      [] e.kind = "layer" ->
            Result(read_array(layers[e.name], 0, index,
                              layers[e.name].window.xsize, step), 1)
      [] e.kind = "group" ->
            Result(GroupLayer_read_array(group, 0, index, group.window.xsize,
                                         step), 1)
      [] e.kind = "op" /\ e.class = "ShaderStyleOperation" ->
            EvalShader(e, index, step)
      [] e.kind = "op" /\ e.class = "LayerOperation" ->
            LET l == _eval(e.lhs, index, step) IN
            IF IsRaise(l.val) THEN l
            ELSE IF e.operator = NoOperator THEN l
            ELSE IF e.operator \in Named THEN EvalNamed(e, index, step, l)
            ELSE EvalCallable(e, index, step, l)

\* ------------------------------------------------------ numpy reductions
RECURSIVE SeqSum(_)
SeqSum(s) == IF s = <<>> THEN 0 ELSE Head(s) + SeqSum(Tail(s))

Elements(a) == {a[i][j] : i \in DOMAIN a, j \in 1..Len(a[1])}

\* np.sum(chunk), np.min(chunk), np.max(chunk); a chunk that is no number and
\* no array comes back as it is and the "total +=" that follows raises.
np_sum(c) ==
    CASE IsScalar(c) -> c.v
      [] IsArray(c) -> SeqSum([i \in DOMAIN c.a |-> SeqSum(c.a[i])])
      [] OTHER -> c
np_min(c) ==
    CASE IsScalar(c) -> c.v
      [] IsArray(c) -> CHOOSE m \in Elements(c.a) : \A x \in Elements(c.a) : m <= x
      [] OTHER -> c
np_max(c) ==
    CASE IsScalar(c) -> c.v
      [] IsArray(c) -> CHOOSE m \in Elements(c.a) : \A x \in Elements(c.a) : m >= x
      [] OTHER -> c

\* np.full((rows, cols), x)
np_full(rows, cols, x) == Array([i \in 1..rows |-> [j \in 1..cols |-> x]])

\* ------------------------------------------------------- the band loop
\* the band height with the clipping of lines 162-163 left out
StepUnclipped(yoff, ysize) == YSTEP

\* lines 161-163: the height of the band that starts at yoff
Step(yoff, ysize) == IF yoff + YSTEP > ysize THEN ysize - yoff ELSE YSTEP

\* the per-band reduction of each terminal operation (lines 165, 176, 187)
BandValue(o, c) ==
    CASE o = "sum" -> np_sum(c)
      [] o = "min" -> np_min(c)
      [] o = "max" -> np_max(c)

\* total += <band value> (lines 165, 176, 187)
Accumulate(t, v) == t + v

Callable == pc \in {"idle", "done", "raised"}

\* what every call of a terminal operation starts from
Enter(o, flag, dest) ==
    /\ op' = o
    /\ and_sum' = flag
    /\ destination_layer' = dest
    /\ total' = 0
    /\ yoffset' = 0
    /\ calls' = <<>>
    /\ writes' = <<>>
    /\ reads' = 0
    /\ ret' = None
    /\ request' = None
    /\ dataset_before' = dataset
    /\ sum_ret' = IF pc = "done" /\ op = "sum" THEN ret ELSE None
    /\ UNCHANGED <<YSTEP, layers, expr, dataset, first>>

\* lines 158-159 (170, 181): total = 0.0; computation_window = self.window
Reduction(o) ==
    /\ Callable
    /\ Enter(o, FALSE, None)
    /\ chunk' = None
    /\ UNCHANGED <<group, window_call>>
    /\ computation_window' = window(expr)
    /\ IF IsRaise(window(expr))
       THEN pc' = "raised" /\ exc' = window(expr).exc
       ELSE pc' = "loop" /\ exc' = "None"

sum == Reduction("sum")
min == Reduction("min")
max == Reduction("max")

\* save()'s checks with the size comparison of lines 206-208 left out
SaveErrorNoSizeCheck(dest) ==
    IF dest = None THEN "Layer is required"
    ELSE IF ~dest.raster THEN "Layer must be a raster backed layer"
    ELSE IF IsRaise(window(expr)) THEN "AttributeError"
    ELSE "None"

\* lines 196-210: save()'s checks, in the order of the code
SaveError(dest) ==
    IF dest = None THEN "Layer is required"
    ELSE IF ~dest.raster THEN "Layer must be a raster backed layer"
    ELSE IF IsRaise(window(expr)) THEN "AttributeError"
    ELSE IF window(expr).xsize # dest.window.xsize
            \/ window(expr).ysize # dest.window.ysize
    THEN "Destination raster window size does not match input raster window size."
    ELSE "None"

\* the destinations save() is given: none, a layer with no raster behind it, and raster
\* layers whose window sits at (1, 2) of the raster with the size of either leaf
Destinations ==
    {None, [kind |-> "layer", raster |-> FALSE, window |-> layers.layer.window]}
    \cup {[kind |-> "layer", raster |-> TRUE,
           window |-> Window(1, 2, layers[n].window.xsize, layers[n].window.ysize)]
          : n \in {"layer", "other"}}

save ==
    /\ Callable
    /\ \E dest \in Destinations, flag \in BOOLEAN :
        /\ Enter("save", flag, dest)
        /\ chunk' = None
        /\ UNCHANGED <<group, window_call>>
        /\ computation_window' =
              IF SaveError(dest) \in {"Layer is required",
                                     "Layer must be a raster backed layer"}
              THEN None ELSE window(expr)
        /\ IF SaveError(dest) # "None"
           THEN pc' = "raised" /\ exc' = SaveError(dest)
           ELSE pc' = "loop" /\ exc' = "None"

\* band.WriteArray(chunk, xoff, yoff): the raster after the write
WriteArray(ds, c, xoff, yoff) ==
    LET cells == {<<xoff + j - 1, yoff + i - 1>> :
                    i \in DOMAIN c.a, j \in 1..Len(c.a[1])}
    IN  [p \in (DOMAIN ds) \cup cells |->
            IF p \in cells THEN c.a[p[2] - yoff + 1][p[1] - xoff + 1] ELSE ds[p]]

\* lines 217-218: a bare number becomes a step-by-xsize chunk
Expand(c, step) ==
    IF IsScalar(c) THEN np_full(step, destination_layer.window.xsize, c.v) ELSE c

\* the write offset with the destination's own yoff left out
WriteOffsetNoYoff(yoff) == <<destination_layer.window.xoff, yoff>>

\* the offset save() writes a band at (lines 221-222)
WriteOffset(yoff) ==
    <<destination_layer.window.xoff, yoff + destination_layer.window.yoff>>

\* one iteration of the loop of sum, min or max (lines 160-165)
ReduceBand ==
    /\ pc = "loop" /\ op \in {"sum", "min", "max"}
    /\ yoffset < computation_window.ysize
    /\ LET step == Step(yoffset, computation_window.ysize)
           r == _eval(expr, yoffset, step)
       IN  /\ calls' = Append(calls, [yoffset |-> yoffset, step |-> step])
           /\ reads' = reads + r.n
           /\ IF IsRaise(r.val)
              THEN /\ pc' = "raised" /\ exc' = r.val.exc
                   /\ UNCHANGED <<chunk, total, yoffset>>
              ELSE /\ chunk' = r.val
                   /\ IF IsScalar(r.val) \/ IsArray(r.val)
                      THEN /\ total' = Accumulate(total, BandValue(op, r.val))
                           /\ yoffset' = yoffset + YSTEP
                           /\ UNCHANGED <<pc, exc>>
                      ELSE /\ pc' = "raised" /\ exc' = "TypeError"
                           /\ UNCHANGED <<total, yoffset>>
    /\ UNCHANGED <<YSTEP, layers, expr, op, and_sum, destination_layer,
                   computation_window, writes, dataset, dataset_before, ret,
                   sum_ret>>
    /\ UNCHANGED groupvars

\* one iteration of the loop of save (lines 212-225)
SaveBand ==
    /\ pc = "loop" /\ op = "save"
    /\ yoffset < computation_window.ysize
    /\ LET step == Step(yoffset, computation_window.ysize)
           r == _eval(expr, yoffset, step)
           c == Expand(r.val, step)
           at == WriteOffset(yoffset)
       IN  /\ calls' = Append(calls, [yoffset |-> yoffset, step |-> step])
           /\ reads' = reads + r.n
           /\ IF IsRaise(r.val)
              THEN /\ pc' = "raised" /\ exc' = r.val.exc
                   /\ UNCHANGED <<chunk, total, yoffset, writes, dataset>>
              ELSE /\ chunk' = r.val
                   /\ IF IsArray(c)
                      THEN /\ dataset' = WriteArray(dataset, c, at[1], at[2])
                           /\ writes' = Append(writes,
                                 [xoff |-> at[1], yoff |-> at[2], chunk |-> c])
                           /\ total' = IF and_sum THEN Accumulate(total, np_sum(c))
                                       ELSE total
                           /\ yoffset' = yoffset + YSTEP
                           /\ UNCHANGED <<pc, exc>>
                      ELSE /\ pc' = "raised" /\ exc' = "AttributeError"
                           /\ UNCHANGED <<total, yoffset, writes, dataset>>
    /\ UNCHANGED <<YSTEP, layers, expr, op, and_sum, destination_layer,
                   computation_window, dataset_before, ret, sum_ret>>
    /\ UNCHANGED groupvars

\* the loop is over: return total (lines 166, 177, 188, 227)
Return ==
    /\ pc = "loop"
    /\ yoffset >= computation_window.ysize
    /\ pc' = "done"
    /\ ret' = IF op = "save" /\ ~and_sum THEN None ELSE Scalar(total)
    /\ UNCHANGED <<YSTEP, layers, expr, op, and_sum, destination_layer,
                   computation_window, yoffset, total, chunk, calls, writes,
                   reads, dataset, dataset_before, exc, sum_ret>>
    /\ UNCHANGED groupvars

\* ------------------------------------------------------------ the inputs
Leaves == {Layer("layer"), Layer("other"), LayerConstant(2)}
Operators == {NoOperator} \cup Named \cup Callables

\* what shader_apply builds over two leaves, and shader nodes over nodes: a
\* node of each class below, and a rhs whose evaluation raises AttributeError
ShaderExprs ==
    {ShaderStyleOperation(l, o, r) :
        l \in {Layer("layer"), LayerConstant(2)}, o \in Callables,
        r \in Leaves \cup {NoRhs}}
    \cup {ShaderStyleOperation(
              LayerOperation(Layer("layer"), "__add__", Layer("other")), "fn_sub",
              ShaderStyleOperation(LayerConstant(2), "fn_sub", Layer("layer"))),
          ShaderStyleOperation(
              ShaderStyleOperation(LayerConstant(2), "fn_neg", NoRhs), "fn_sub",
              Layer("other")),
          ShaderStyleOperation(Layer("layer"), "fn_neg",
              LayerOperation(
                  LayerOperation(LayerConstant(2), "__sub__", Layer("layer")),
                  "__add__", LayerConstant(3)))}

\* every node over two leaves, and nodes nested on either side
Exprs ==
    {LayerOperation(l, o, r) :
        l \in {Layer("layer"), LayerConstant(2)}, o \in Operators,
        r \in Leaves \cup {NoRhs}}
    \cup {LayerOperation(LayerOperation(LayerConstant(2), NoOperator, Layer("layer")),
                         "__add__", LayerConstant(3)),
          LayerOperation(LayerOperation(Layer("layer"), "__sub__", LayerConstant(2)),
                         "__mul__", Layer("other")),
          LayerOperation(LayerConstant(3), "__add__",
                         LayerOperation(Layer("other"), "__add__", Layer("layer"))),
          LayerOperation(LayerOperation(LayerConstant(2), "__sub__", Layer("layer")),
                         NoOperator, NoRhs),
          LayerOperation(LayerOperation(LayerConstant(2), "__sub__", Layer("layer")),
                         "__add__", LayerConstant(3)),
          LayerOperation(LayerOperation(LayerConstant(2), "fn_neg", NoRhs),
                         "fn_sub", Layer("other"))}
    \cup ShaderExprs

Init ==
    /\ YSTEP \in 1..MaxYStep
    /\ \E w \in 1..MaxXSize, h \in 0..MaxYSize, p \in Patterns :
          layers = [layer |-> [window |-> Window(0, 0, w, h), pattern |-> p],
                    other |-> [window |-> Window(0, 0, w, h + 1), pattern |-> "other"]]
    /\ expr \in Exprs
    /\ pc = "idle"
    /\ op = "None"
    /\ and_sum = FALSE
    /\ destination_layer = None
    /\ computation_window = None
    /\ yoffset = 0
    /\ total = 0
    /\ chunk = None
    /\ calls = <<>>
    /\ writes = <<>>
    /\ reads = 0
    /\ dataset = <<>>
    /\ dataset_before = <<>>
    /\ ret = None
    /\ exc = "None"
    /\ sum_ret = None
    /\ group = None
    /\ request = None
    /\ window_call = [last |-> "None", narrowed |-> FALSE]
    /\ first = None

Next == sum \/ min \/ max \/ save \/ ReduceBand \/ SaveBand \/ Return

Spec == Init /\ [][Next]_vars

\* ------------------------------------------- a session with a compositor
\* the areas children are built over: rectangles of whole pixels in a strip
\* 3 pixels wide and 2 high, side by side, stacked, overlapping, nested or
\* leaving a gap
TileAreas ==
    {Area(0, 0, XStep * 1, YStep * 1),
     Area(0, 0, XStep * 2, YStep * 2),
     Area(XStep * 1, 0, XStep * 3, YStep * 1),
     Area(XStep * 2, YStep * 1, XStep * 3, YStep * 2),
     Area(XStep * 1, 0, XStep * 2, YStep * 2)}

\* the areas windows are asked for: those, one reaching past the strip and
\* one beside it
AskedAreas ==
    TileAreas \cup {Area(XStep * 1, YStep * 1, XStep * 4, YStep * 3),
                    Area(XStep * 5, 0, XStep * 6, YStep * 1)}

\* child k over area a: a raster of the area's size, its window whole
Child(k, a) ==
    [window |-> AreaWindow(a, a), pattern |-> "tile", id |-> k, area |-> a]

ChildLists ==
    UNION {[1..n -> TileAreas] : n \in 1..MaxChildren}

GroupInit ==
    /\ YSTEP \in 1..MaxYStep
    /\ \E as \in ChildLists :
          /\ group = GroupLayer([k \in DOMAIN as |-> Child(k, as[k])])
          /\ first = [group |-> GroupLayer([k \in DOMAIN as |-> Child(k, as[k])]),
                      read |-> LET g == GroupLayer([k \in DOMAIN as |-> Child(k, as[k])])
                               IN  GroupLayer_read_array(g, 0, 0, g.window.xsize,
                                                         g.window.ysize)]
    /\ layers = [layer |-> [window |-> Window(0, 0, 1, 1), pattern |-> "positive"],
                 other |-> [window |-> Window(0, 0, 1, 2), pattern |-> "other"]]
    /\ expr = LayerOperation(Group, NoOperator, NoRhs)
    /\ pc = "idle"
    /\ op = "None"
    /\ and_sum = FALSE
    /\ destination_layer = None
    /\ computation_window = None
    /\ yoffset = 0
    /\ total = 0
    /\ chunk = None
    /\ calls = <<>>
    /\ writes = <<>>
    /\ reads = 0
    /\ dataset = <<>>
    /\ dataset_before = <<>>
    /\ ret = None
    /\ exc = "None"
    /\ sum_ret = None
    /\ request = None
    /\ window_call = [last |-> "None", narrowed |-> FALSE]

\* group.set_window_for_intersection(area)
SetWindowForIntersection ==
    /\ Callable
    /\ Enter("set_window_for_intersection", FALSE, None)
    /\ \E a \in AskedAreas :
          LET g == set_window_for_intersection(group, a) IN
          IF IsRaise(g)
          THEN /\ pc' = "raised" /\ exc' = g.exc
               /\ UNCHANGED <<group, window_call>>
          ELSE /\ pc' = "idle" /\ exc' = "None"
               /\ group' = g
               /\ window_call' =
                     [last |-> "set_window_for_intersection",
                      narrowed |-> window_call.narrowed
                                      \/ g.window # FullWindow(group)]
    /\ chunk' = None
    /\ computation_window' = None

\* group.reset_window()
ResetWindow ==
    /\ Callable
    /\ Enter("reset_window", FALSE, None)
    /\ group' = reset_window(group)
    /\ window_call' = [window_call EXCEPT !.last = "reset_window"]
    /\ pc' = "idle" /\ exc' = "None"
    /\ chunk' = None
    /\ computation_window' = None

\* group.read_array(xoffset, yoffset, xsize, ysize), for a request that
\* lies within the compositor's window
ReadArray ==
    /\ Callable
    /\ op' = "read_array"
    /\ \E x \in 0..(group.window.xsize - 1), y \in 0..(group.window.ysize - 1) :
       \E w \in 1..(group.window.xsize - x), h \in 1..(group.window.ysize - y) :
          /\ request' = [xoffset |-> x, yoffset |-> y, xsize |-> w, ysize |-> h]
          /\ chunk' = GroupLayer_read_array(group, x, y, w, h)
    /\ pc' = "idle" /\ exc' = "None"
    /\ and_sum' = FALSE /\ destination_layer' = None
    /\ total' = 0 /\ yoffset' = 0 /\ calls' = <<>> /\ writes' = <<>>
    /\ reads' = 0 /\ ret' = None /\ dataset_before' = dataset
    /\ sum_ret' = None
    /\ computation_window' = None
    /\ UNCHANGED <<YSTEP, layers, expr, dataset, first, group, window_call>>

GroupNext ==
    sum \/ ReduceBand \/ Return \/ SetWindowForIntersection \/ ResetWindow
        \/ ReadArray

GroupSpec == GroupInit /\ [][GroupNext]_vars

\* ================================================================ claims

\* ---- what an expression denotes, pixel by pixel, whatever the banding
\* the value of expression e at column c, row r (a LayerConstant has its
\* value at every pixel, a layer is zero outside its data)
RECURSIVE PixelValue(_, _, _)
PixelValue(e, c, r) ==
    CASE e.kind = "const" -> e.val
      [] e.kind = "layer" ->
            IF c < layers[e.name].window.xsize /\ r < layers[e.name].window.ysize
            THEN Pixel(layers[e.name], c, r) ELSE 0
      [] e.kind = "op" /\ e.operator = NoOperator -> PixelValue(e.lhs, c, r)
      [] e.kind = "op" /\ e.operator \in {"__neg__", "fn_neg"} ->
            0 - PixelValue(e.lhs, c, r)
      [] e.kind = "op" /\ e.operator \in NamedBinary ->
            Arith(e.operator, PixelValue(e.lhs, c, r), PixelValue(e.rhs, c, r))
      [] e.kind = "op" /\ e.operator = "fn_sub" ->
            PixelValue(e.lhs, c, r) - PixelValue(e.rhs, c, r)

\* the pixels of the window of the running operation
WindowPixels ==
    {<<c, r>> : c \in 0..(computation_window.xsize - 1),
                r \in 0..(computation_window.ysize - 1)}

PixelValues == {PixelValue(expr, p[1], p[2]) : p \in WindowPixels}

\* the total of the expression's values over the pixels of the window
PixelTotal ==
    SeqSum([i \in 1..computation_window.ysize |->
        SeqSum([j \in 1..computation_window.xsize |->
            PixelValue(expr, j - 1, i - 1)])])

Completed(o) == pc = "done" /\ op = o

\* C1: min() returns the smallest and max() the largest pixel value of the
\* evaluated expression over the whole window, whatever the window height
\* (stated for windows with at least one row and array-valued bands).
MinMaxAreGlobalExtremes ==
    /\ (Completed("min") /\ computation_window.ysize > 0 /\ IsArray(chunk))
          => (ret.v \in PixelValues /\ \A v \in PixelValues : ret.v <= v)
    /\ (Completed("max") /\ computation_window.ysize > 0 /\ IsArray(chunk))
          => (ret.v \in PixelValues /\ \A v \in PixelValues : ret.v >= v)

\* C2: sum() returns the total of the pixel values of the evaluated
\* expression over rows [0, ysize), each row once, whatever YSTEP is.
SumIsTotalOfPixels ==
    Completed("sum") =>
        ret.v = PixelTotal

\* C3: _eval never hands NotImplemented back to its caller as a band's
\* result; a dispatch that declines is an error.
EvalNeverReturnsNotImplemented ==
    chunk # NotImplemented

\* C4: save(destination, and_sum=True) returns what an independent sum() over
\* the same expression returned (here the sum() called just before it).
SaveSumEqualsSum ==
    (Completed("save") /\ and_sum /\ sum_ret # None) => ret = sum_ret

\* ---- C5
SizeMismatch ==
    /\ ~IsRaise(window(expr))
    /\ \/ window(expr).xsize # destination_layer.window.xsize
       \/ window(expr).ysize # destination_layer.window.ysize

PreconditionFails ==
    \/ destination_layer = None
    \/ ~destination_layer.raster
    \/ SizeMismatch

\* C5: a save() whose destination is None, has no raster behind it or has a
\* window of another size than the computation's raises before any band is
\* evaluated, before any read_array and before any WriteArray: the
\* destination raster is as it was when save() was called.
SaveChecksBeforeAnyBand ==
    (op = "save" /\ PreconditionFails) =>
        /\ pc = "raised"
        /\ exc \in {"Layer is required", "Layer must be a raster backed layer",
                   "Destination raster window size does not match input raster window size."}
        /\ calls = <<>> /\ writes = <<>> /\ reads = 0
        /\ dataset = dataset_before

\* a size mismatch met by a save() on a raster an earlier save() has filled
SaveRejectedOnWrittenRaster ==
    /\ op = "save" /\ pc = "raised" /\ destination_layer # None
    /\ destination_layer.raster /\ SizeMismatch
    /\ dataset # <<>>

\* ---- C6
\* C6: after a completed save() every band was written exactly once, at
\* (dx, dy + yoffset) and step rows by W columns, and the destination pixel
\* (dx + c, dy + r) holds the expression's value at (c, r) for every pixel
\* of the window; a band that is a bare number is written as a chunk filled
\* with it.
SaveWritesEveryBandInPlace ==
    Completed("save") =>
        LET dw == destination_layer.window IN
        /\ Len(writes) = Len(calls)
        /\ \A i \in DOMAIN writes :
              /\ writes[i].xoff = dw.xoff
              /\ writes[i].yoff = dw.yoff + calls[i].yoffset
              /\ Len(writes[i].chunk.a) = calls[i].step
              /\ \A k \in DOMAIN writes[i].chunk.a :
                    Len(writes[i].chunk.a[k]) = dw.xsize
        /\ IsScalar(chunk) =>
              \A k \in DOMAIN writes[Len(writes)].chunk.a :
                 \A j \in 1..dw.xsize : writes[Len(writes)].chunk.a[k][j] = chunk.v
        /\ \A p \in WindowPixels :
              /\ <<dw.xoff + p[1], dw.yoff + p[2]>> \in DOMAIN dataset
              /\ dataset[<<dw.xoff + p[1], dw.yoff + p[2]>>]
                    = PixelValue(expr, p[1], p[2])

\* a save() of several bands, the last of them a bare number
SavedSeveralBands ==
    Completed("save") /\ Len(writes) >= 2 /\ IsScalar(chunk)

\* ---- C7
\* the leaves of an expression, left to right
RECURSIVE LeafSeq(_)
LeafSeq(e) ==
    CASE e.kind = "op" -> LeafSeq(e.lhs) \o LeafSeq(e.rhs)
      [] e.kind = "none" -> <<>>
      [] OTHER -> <<e>>

LayerLeaves(e) == SelectSeq(LeafSeq(e), LAMBDA l : l.kind = "layer")

\* C7: a node's window is its lhs's when the lhs (recursively) has one and
\* its rhs's otherwise, that is the window of the leftmost layer among its
\* leaves; where no leaf has a window, sum, min, max and save raise before
\* any band is evaluated.
WindowIsLhsFirst ==
    /\ (op # "None" /\ LayerLeaves(expr) = <<>>) =>
          /\ pc = "raised"
          /\ calls = <<>> /\ reads = 0 /\ writes = <<>>
          /\ (op = "save" => dataset = dataset_before)
    /\ (op # "None" /\ LayerLeaves(expr) # <<>> /\ computation_window # None) =>
          computation_window = layers[Head(LayerLeaves(expr)).name].window

\* a reduction over a node whose lhs has a window and whose rhs has another
WindowTakenFromLhs ==
    /\ pc = "done" /\ op \in {"sum", "min", "max"}
    /\ expr.lhs = Layer("layer") /\ expr.rhs = Layer("other")
    /\ computation_window = layers.layer.window
    /\ computation_window # layers.other.window

\* ---- C8
\* C8: the _eval calls of a terminal operation start at 0, YSTEP, 2*YSTEP,
\* ...; every step is between 1 and YSTEP, only the last may be shorter
\* than YSTEP, no call reaches row H or beyond, and once the operation has
\* completed the bands cover rows [0, H) exactly.
BandsPartitionWindow ==
    computation_window # None /\ ~IsRaise(computation_window) =>
        LET H == computation_window.ysize IN
        /\ \A i \in DOMAIN calls :
              /\ calls[i].yoffset = (i - 1) * YSTEP
              /\ calls[i].step >= 1 /\ calls[i].step <= YSTEP
              /\ calls[i].yoffset + calls[i].step <= H
              /\ calls[i].step < YSTEP =>
                    (i = Len(calls) /\ calls[i].yoffset + calls[i].step = H)
              /\ i < Len(calls) =>
                    calls[i].yoffset + calls[i].step = calls[i + 1].yoffset
        /\ pc = "done" =>
              /\ H = 0 => calls = <<>>
              /\ H > 0 => /\ calls # <<>>
                          /\ calls[Len(calls)].yoffset + calls[Len(calls)].step = H

\* a completed operation whose last band is shorter than YSTEP
LastBandClipped ==
    /\ pc = "done" /\ Len(calls) >= 2
    /\ calls[Len(calls)].step < YSTEP

\* ---- C9
\* the children whose area covers pixel (x, y) of the union frame
Covering(g, x, y) ==
    {k \in DOMAIN g.children : InWindow(AreaWindow(g.children[k].area, g.area), x, y)}

\* the value of the child latest in the order of construction among those
\* that cover pixel (x, y), and zero where there is none
LastCovering(g, x, y) ==
    IF Covering(g, x, y) = {} THEN 0
    ELSE LET k == CHOOSE m \in Covering(g, x, y) : \A n \in Covering(g, x, y) : n <= m
             cw == AreaWindow(g.children[k].area, g.area)
         IN  Pixel(g.children[k], x - cw.xoff, y - cw.yoff)

\* what child k's own sum() is: the total of its pixels
ChildSum(g, k) ==
    SeqSum([i \in 1..g.children[k].window.ysize |->
        SeqSum([j \in 1..g.children[k].window.xsize |->
            Pixel(g.children[k], j - 1, i - 1)])])

Disjoint(g) ==
    \A k, m \in DOMAIN g.children :
        k # m => EmptyArea(IntersectArea(g.children[k].area, g.children[m].area))

\* C9: every pixel of the chunk read_array returns is the value of the latest
\* child that covers it, zero where no child does; so the compositor's sum()
\* counts every pixel of its window once, with the latest covering child's
\* value, and over the whole window of disjoint children it is the sum of
\* the children's sums.
GroupReadsLatestChild ==
    /\ op = "read_array" =>
          /\ Len(chunk.a) = request.ysize
          /\ \A i \in 1..request.ysize :
                /\ Len(chunk.a[i]) = request.xsize
                /\ \A j \in 1..request.xsize :
                      chunk.a[i][j] =
                         LastCovering(group,
                                      group.window.xoff + request.xoffset + j - 1,
                                      group.window.yoff + request.yoffset + i - 1)
    /\ (Completed("sum") /\ expr.lhs = Group) =>
          /\ ret.v = SeqSum([i \in 1..group.window.ysize |->
                          SeqSum([j \in 1..group.window.xsize |->
                             LastCovering(group, group.window.xoff + j - 1,
                                          group.window.yoff + i - 1)])])
          /\ (group.window = FullWindow(group) /\ Disjoint(group)) =>
                ret.v = SeqSum([k \in DOMAIN group.children |-> ChildSum(group, k)])

\* a sum() in two bands or more over two children that overlap
SummedOverlappingChildren ==
    /\ Completed("sum") /\ expr.lhs = Group /\ Len(calls) >= 2
    /\ group.window = FullWindow(group)
    /\ \E p \in WindowPixels : Cardinality(Covering(group, p[1], p[2])) = 2

\* ---- C10
\* C10: once the last windowing call is reset_window(), the compositor's
\* window is the full union window again and a read of the full window
\* returns what it returned before any narrowing; no call changes a child's
\* area, window or data, and the compositor's area stays the union area.
ResetWindowRestoresFullRead ==
    /\ first # None =>
          /\ group.children = first.group.children
          /\ group.area = first.group.area
          /\ group.area = GroupArea(group.children)
    /\ (first # None /\ window_call.last = "reset_window") =>
          /\ group.window = first.group.window
          /\ group.window = AreaWindow(group.area, group.area)
          /\ GroupLayer_read_array(group, 0, 0, group.window.xsize,
                                   group.window.ysize) = first.read

\* the full window read again after a narrowing and a reset
ReadFullAfterReset ==
    /\ first # None
    /\ window_call.last = "reset_window" /\ window_call.narrowed
    /\ op = "read_array"
    /\ request.xsize = group.window.xsize /\ request.ysize = group.window.ysize
    /\ chunk = first.read

\* ---- C11
\* the arguments of the last _eval call of the running operation
LastCall == calls[Len(calls)]

\* what a side of the root node evaluates to over that band
Operand(side) == _eval(side, LastCall.yoffset, LastCall.step).val

\* an operand's value at row i, column j: a bare number is used as it is
At(v, i, j) == IF IsArray(v) THEN Scalar(v.a[i][j]) ELSE v

\* the operator applied to the operands' values at row i, column j
Applied(lhs, rhs, i, j) ==
    IF expr.rhs.kind = "none" THEN Call1(expr.operator, At(lhs, i, j))
    ELSE Call2(expr.operator, At(lhs, i, j), At(rhs, i, j))

RECURSIVE Occurrences(_)
Occurrences(e) ==
    CASE e.kind \in {"layer", "group"} -> 1
      [] e.kind = "op" /\ e.operator = NoOperator -> Occurrences(e.lhs)
      [] e.kind = "op" /\ e.operator # NoOperator ->
            Occurrences(e.lhs) + Occurrences(e.rhs)
      [] OTHER -> 0

\* C12: a band's evaluation evaluates the lhs and the rhs of every node once,
\* under a named operator as under a function: after any number of bands of
\* a terminal operation, read_array has been called once a band for each
\* occurrence of a leaf layer in the tree, however deep the tree is.
EachSubtreeEvaluatedOncePerBand ==
    (pc \in {"loop", "done"} /\ op \in {"sum", "min", "max", "save"}) =>
        reads = Len(calls) * Occurrences(expr)

====
